---- MODULE Spec2Model ----
(***************************************************************************)
(* PsiNet X402 payment gate (src/src/python/psinet_payment.py).            *)
(*                                                                         *)
(* PaymentManager is modelled as a state machine.  The three dictionaries  *)
(* of the manager are insertion-ordered (Python dict), so each is a        *)
(* sequence: a requirement entry is a key/value pair, a receipt and a      *)
(* channel are identified by their position (their ids are fresh SHA-256   *)
(* digests in the source).  Amounts are Decimal strings in the source;     *)
(* Decimal comparison and subtraction are exact (within the 28 significant *)
(* digits of the default context), so an amount is an integer number of    *)
(* the smallest unit in use.  Time is counted in hours.  A channel's       *)
(* opened timestamp is stored by the source and read by no method; the     *)
(* channel record leaves it out.                                           *)
(***************************************************************************)
EXTENDS Integers, Sequences, FiniteSets, TLC

(***************************************************************************)
(* Bounds of the model.                                                    *)
(***************************************************************************)
MaxTime     == 2      \* the clock runs over 0..MaxTime
MaxObjects  == 2      \* channels opened plus receipts recorded
MaxCalls    == 3      \* concurrent authorize calls ever started
MaxUnits    == 2      \* units in the node's store
MaxChains   == 1      \* chains in the node's store
MaxTokens   == 1      \* access tokens issued by the node

(***************************************************************************)
(* Enumerations.                                                           *)
(***************************************************************************)
PENDING   == "pending"
CONFIRMED == "confirmed"
FAILED    == "failed"
EXPIRED   == "expired"
REFUNDED  == "refunded"

BITCOIN      == "bitcoin"
ETHEREUM     == "ethereum"
LIGHTNING    == "lightning"
CUSTOM_TOKEN == "custom_token"
ARWEAVE_AR   == "arweave_ar"

None     == "None"
NoExpiry == << >>                 \* expires = None
node_did == "did:psinet:provider" \* PaymentManager.node_did

(***************************************************************************)
(* Input sets.  Contexts are the context ids a caller asks for or tags a   *)
(* receipt with; Priced are the ones requirements are registered for.      *)
(***************************************************************************)
Contexts   == {"ctx1", "ctx2"}
Priced     == {"ctx1"}
Requesters == {"did:psinet:alice", "did:psinet:bob"}
Payers     == {"did:psinet:alice"}  \* who opens channels and records receipts
Hours      == {0, 1}              \* expires_in_hours; 0 (like None) gives no expiry
Threads    == {"t1", "t2"}

VARIABLES
    now,                  \* datetime.utcnow(), in hours
    payment_requirements, \* dict context_id -> PaymentRequirement, in insertion order
    payment_receipts,     \* dict receipt_id -> PaymentReceipt, in insertion order
    payment_channels,     \* dict channel_id -> PaymentChannel, in insertion order
    paid,                 \* history: per channel, the sum of the amounts granted through it
    last,                 \* history: the last call and what it returned
    receipt_grants,       \* history: the (context, requester) pairs granted by a receipt
    thr,                  \* concurrent callers of check_payment_for_context
    calls                 \* history: number of concurrent calls started

(***************************************************************************)
(* PsiNetNode (src/src/python/psinet_core.py): the identity, the unit and  *)
(* chain stores and the node's storage directory.                          *)
(***************************************************************************)
VARIABLES
    crypto,               \* CRYPTO_AVAILABLE, fixed when the module is imported
    did,                  \* PsiNetNode.did
    private_key,          \* PsiNetNode.private_key
    identities,           \* storage_dir/dids and storage_dir/keys: the identities saved
    contexts,             \* dict id -> ContextUnit, in insertion order
    chains,               \* dict chain_id -> ContextChain, in insertion order
    context_files,        \* storage_dir/contexts: dict id -> the unit saved in <id>.json
    access_tokens,        \* PsiNetNode.access_tokens: the tokens issued, in order
    out                   \* history: the last call on the node and what it returned

node_vars == << crypto, did, private_key, identities, contexts, chains,
                context_files, access_tokens, out >>

vars == << now, payment_requirements, payment_receipts, payment_channels,
           paid, last, receipt_grants, thr, calls, node_vars >>

(***************************************************************************)
(* Helpers on the dictionaries.                                            *)
(***************************************************************************)
Keys(d) == { d[i].key : i \in DOMAIN d }

IndexOf(d, k) == CHOOSE i \in DOMAIN d : d[i].key = k

Get(d, k) == d[IndexOf(d, k)].value

\* Faulty variant: a second entry is added for a key that is there.
Put_appended(d, k, v) == Append(d, [key |-> k, value |-> v])

\* d[k] = v on a Python dict: an existing key keeps its position.
Put(d, k, v) ==
    IF k \in Keys(d)
    THEN [d EXCEPT ![IndexOf(d, k)] = [key |-> k, value |-> v]]
    ELSE Append(d, [key |-> k, value |-> v])

Min(S) == CHOOSE x \in S : \A y \in S : x <= y

NoRequirement ==
    [amount |-> 0, currency |-> None, recipient_address |-> None, expires |-> NoExpiry]

\* The value a call leaves in `last`; the calls whose result no property
\* reads leave Call("other").
Call(op) ==
    [op |-> op, context_id |-> None, requester_did |-> None, granted |-> FALSE,
     status_code |-> 0, payment_requirement |-> NoRequirement, via |-> None,
     channel |-> 0, receipt |-> 0, verified |-> FALSE]

IdleThread ==
    [pc |-> "idle", context_id |-> None, requester_did |-> None, amount |-> 0,
     idx |-> 0, size |-> 0, bal |-> 0, result |-> None, channel |-> 0]

(***************************************************************************)
(* PaymentRequirement.is_expired                                           *)
(***************************************************************************)
\* Faulty variant: the comparison of line 78 reversed.
is_expired_reversed(requirement) ==
    IF requirement.expires = NoExpiry
    THEN FALSE
    ELSE now < requirement.expires[1]

is_expired(requirement) ==
    IF requirement.expires = NoExpiry
    THEN FALSE
    ELSE now > requirement.expires[1]

(***************************************************************************)
(* PaymentChannel.has_sufficient_balance                                   *)
(***************************************************************************)
\* Faulty variant: compares the amount deposited, not what is left of it.
has_sufficient_capacity(channel, amount) ==
    channel.total_capacity >= amount

has_sufficient_balance(channel, amount) ==
    channel.current_balance >= amount

(***************************************************************************)
(* PaymentManager.create_payment_requirement                               *)
(***************************************************************************)
create_payment_requirement(context_id, amount, currency, recipient_address, expires_in_hours) ==
    LET expires == IF expires_in_hours # 0
                   THEN << now + expires_in_hours >>
                   ELSE NoExpiry
        requirement == [amount |-> amount, currency |-> currency,
                        recipient_address |-> recipient_address,
                        expires |-> expires]
    IN  /\ payment_requirements' = Put(payment_requirements, context_id, requirement)
        /\ last' = Call("other")
        /\ UNCHANGED << node_vars, now, payment_receipts, payment_channels, paid,
                        receipt_grants, thr, calls >>

(***************************************************************************)
(* PaymentManager.create_payment_receipt                                   *)
(* The requirement argument is an object the caller holds; context_id is   *)
(* an independent optional argument.                                       *)
(***************************************************************************)
create_payment_receipt(payment_requirement, payer_did, context_id) ==
    LET receipt == [payer_did |-> payer_did,
                    recipient_did |-> node_did,
                    amount |-> payment_requirement.amount,
                    currency |-> payment_requirement.currency,
                    status |-> PENDING,
                    context_id |-> context_id]
    IN  /\ Len(payment_channels) + Len(payment_receipts) < MaxObjects
        /\ payment_receipts' = Append(payment_receipts, receipt)
        /\ last' = Call("other")
        /\ UNCHANGED << node_vars, now, payment_requirements, payment_channels, paid,
                        receipt_grants, thr, calls >>

(***************************************************************************)
(* PaymentManager.verify_payment                                           *)
(* PaymentVerifier's methods stand for a query to an external system (a    *)
(* blockchain node); `answer` is what that system answers.  The verifier   *)
(* is consulted for four currencies only.                                  *)
(***************************************************************************)
VerifierCurrencies == {BITCOIN, ETHEREUM, LIGHTNING, ARWEAVE_AR}

\* for req in self.payment_requirements.values(): if req.currency == currency
MatchingRequirements(currency) ==
    { i \in DOMAIN payment_requirements :
        payment_requirements[i].value.currency = currency }

\* lines 297-314
Verified(currency, answer) ==
    IF currency \in VerifierCurrencies THEN answer ELSE FALSE

\* lines 316-322
StatusAfter(status, verified) ==
    IF verified THEN CONFIRMED ELSE FAILED

verify_payment(r, answer) ==
    LET receipt  == payment_receipts[r]
        currency == receipt.currency
    IN  IF MatchingRequirements(currency) = {}
        THEN \* "No payment requirement found": return False
             /\ last' = [Call("verify_payment") EXCEPT
                            !.receipt = r, !.verified = FALSE, !.via = "no_requirement"]
             /\ UNCHANGED << node_vars, now, payment_requirements, payment_receipts,
                             payment_channels, paid, receipt_grants, thr, calls >>
        ELSE LET requirement ==
                     payment_requirements[Min(MatchingRequirements(currency))].value
                 verified == Verified(currency, answer)
             IN  /\ payment_receipts' =
                        [payment_receipts EXCEPT
                            ![r].status = StatusAfter(receipt.status, verified)]
                 /\ last' = [Call("verify_payment") EXCEPT
                                !.receipt = r, !.verified = verified,
                                !.via = "verifier",
                                !.payment_requirement = requirement]
                 /\ UNCHANGED << node_vars, now, payment_requirements, payment_channels,
                                 paid, receipt_grants, thr, calls >>

(***************************************************************************)
(* PaymentManager.check_payment_for_context                                *)
(***************************************************************************)
\* Faulty variant: any receipt of the requester for the context counts.
ReceiptCovers_any_status(receipt, context_id, requester_did) ==
    /\ receipt.context_id = context_id
    /\ receipt.payer_did = requester_did

\* lines 348-350: a CONFIRMED receipt of the requester for the context
ReceiptCovers(receipt, context_id, requester_did) ==
    /\ receipt.context_id = context_id
    /\ receipt.payer_did = requester_did
    /\ receipt.status = CONFIRMED

\* Faulty variant: a payment made through a channel counts as well.
AlreadyPaid_or_channel(context_id, requester_did) ==
    \/ \E i \in DOMAIN payment_receipts :
            ReceiptCovers(payment_receipts[i], context_id, requester_did)
    \/ \E ch \in DOMAIN payment_channels :
            payment_channels[ch].payer_did = requester_did /\ paid[ch] > 0

\* lines 347-351
AlreadyPaid(context_id, requester_did) ==
    \E i \in DOMAIN payment_receipts :
        ReceiptCovers(payment_receipts[i], context_id, requester_did)

\* Faulty variant: the payer of the channel is not looked at.
ChannelCovers_any_payer(channel, requester_did, amount) ==
    /\ channel.recipient_did = node_did
    /\ channel.status = "open"
    /\ has_sufficient_balance(channel, amount)

\* lines 355-358: the condition of the channel loop
ChannelCovers(channel, requester_did, amount) ==
    /\ channel.payer_did = requester_did
    /\ channel.recipient_did = node_did
    /\ channel.status = "open"
    /\ has_sufficient_balance(channel, amount)

\* Faulty variant: the operands of the subtraction swapped.
Deduct_swapped(balance, amount) == amount - balance

\* Faulty variant: the amount is taken twice.
Deduct_twice(balance, amount) == balance - 2 * amount

\* lines 360-362, on the balance the caller read
Deduct(balance, amount) == balance - amount

\* Faulty variant: the channel loop runs without looking at the receipts.
Gate_without_receipts(context_id, requester_did) ==
    IF context_id \notin Keys(payment_requirements) THEN "free"
    ELSE IF is_expired(Get(payment_requirements, context_id)) THEN "expired"
    ELSE "channels"

\* lines 336-351: what is decided before the channel loop
Gate(context_id, requester_did) ==
    IF context_id \notin Keys(payment_requirements) THEN "free"
    ELSE IF is_expired(Get(payment_requirements, context_id)) THEN "expired"
    ELSE IF AlreadyPaid(context_id, requester_did) THEN "receipt"
    ELSE "channels"

\* lines 354-358: the first channel of the loop that satisfies the condition,
\* 0 if none does.
FirstChannel(requester_did, amount) ==
    LET S == { i \in DOMAIN payment_channels :
                 ChannelCovers(payment_channels[i], requester_did, amount) }
    IN  IF S = {} THEN 0 ELSE Min(S)

\* Faulty variant: a context without a requirement is refused.
Granted_unless_free(call, gate) ==
    [call EXCEPT !.granted = (gate # "free"), !.via = gate,
                 !.status_code = IF gate = "free" THEN 402 ELSE 0]

\* lines 338, 344, 351: return None, access granted before the channel loop
Granted(call, gate) ==
    [call EXCEPT !.granted = TRUE, !.via = gate]

\* lines 367-377
X402Response(call, requirement) ==
    [call EXCEPT !.granted = FALSE, !.via = "402", !.status_code = 402,
                 !.payment_requirement = requirement]

check_payment_for_context(context_id, requester_did) ==
    LET gate == Gate(context_id, requester_did)
        call == [Call("check_payment_for_context") EXCEPT
                    !.context_id = context_id, !.requester_did = requester_did]
    IN  IF gate # "channels"
        THEN /\ last' = Granted(call, gate)
             /\ receipt_grants' =
                    IF gate = "receipt"
                    THEN receipt_grants \cup { << context_id, requester_did >> }
                    ELSE receipt_grants
             /\ UNCHANGED << node_vars, now, payment_requirements, payment_receipts,
                             payment_channels, paid, thr, calls >>
        ELSE LET requirement == Get(payment_requirements, context_id)
                 ch == FirstChannel(requester_did, requirement.amount)
             IN  IF ch # 0
                 THEN /\ payment_channels' =
                            [payment_channels EXCEPT
                                ![ch].current_balance =
                                    Deduct(@, requirement.amount)]
                      /\ paid' = [paid EXCEPT ![ch] = @ + requirement.amount]
                      /\ last' = [call EXCEPT !.granted = TRUE, !.via = "channel",
                                              !.channel = ch,
                                              !.payment_requirement = requirement]
                      /\ UNCHANGED << node_vars, now, payment_requirements, payment_receipts,
                                      receipt_grants, thr, calls >>
                 ELSE /\ last' = X402Response(call, requirement)
                      /\ UNCHANGED << node_vars, now, payment_requirements, payment_receipts,
                                      payment_channels, paid, receipt_grants,
                                      thr, calls >>

(***************************************************************************)
(* PaymentManager.open_payment_channel                                     *)
(***************************************************************************)
open_payment_channel(payer_did, total_capacity, currency, expires_in_days) ==
    LET expires_dt == now + 24 * expires_in_days
        channel == [payer_did |-> payer_did,
                    recipient_did |-> node_did,
                    total_capacity |-> total_capacity,
                    current_balance |-> total_capacity,
                    currency |-> currency,
                    expires |-> expires_dt,
                    status |-> "open"]
    IN  /\ Len(payment_channels) + Len(payment_receipts) < MaxObjects
        /\ payment_channels' = Append(payment_channels, channel)
        /\ paid' = Append(paid, 0)
        /\ last' = Call("other")
        /\ UNCHANGED << node_vars, now, payment_requirements, payment_receipts,
                        receipt_grants, thr, calls >>

(***************************************************************************)
(* PaymentManager.close_payment_channel                                    *)
(***************************************************************************)
close_payment_channel(channel_id) ==
    /\ channel_id \in DOMAIN payment_channels
    /\ payment_channels' = [payment_channels EXCEPT ![channel_id].status = "closed"]
    /\ last' = Call("other")
    /\ UNCHANGED << node_vars, now, payment_requirements, payment_receipts, paid,
                    receipt_grants, thr, calls >>

(***************************************************************************)
(* The clock: datetime.utcnow() advances between calls.                    *)
(***************************************************************************)
Tick ==
    /\ now < MaxTime
    /\ now' = now + 1
    /\ last' = Call("other")
    /\ UNCHANGED << node_vars, payment_requirements, payment_receipts, payment_channels,
                    paid, receipt_grants, thr, calls >>

(***************************************************************************)
(* check_payment_for_context called from several threads.  The source      *)
(* takes no lock, so a thread switch can fall between any two of: the      *)
(* checks before the channel loop (lines 336-351), each evaluation of the  *)
(* loop condition (354-358), the read of current_balance for the           *)
(* subtraction (361) and the write of the result (360).  The loop iterates *)
(* the dict's values, and CPython's iterator raises RuntimeError when the  *)
(* dict has changed size since the loop started.                           *)
(***************************************************************************)
Begin(t, context_id, requester_did) ==
    /\ thr[t].pc = "idle"
    /\ calls < MaxCalls
    /\ calls' = calls + 1
    /\ LET gate == Gate(context_id, requester_did)
           mine == [IdleThread EXCEPT !.context_id = context_id,
                                      !.requester_did = requester_did]
       IN  IF gate # "channels"
           THEN thr' = [thr EXCEPT ![t] = [mine EXCEPT !.result = "granted"]]
           ELSE thr' = [thr EXCEPT ![t] =
                    [mine EXCEPT !.pc = "loop",
                                 !.amount = Get(payment_requirements, context_id).amount,
                                 !.idx = 1,
                                 !.size = Len(payment_channels)]]
    /\ receipt_grants' =
            IF Gate(context_id, requester_did) = "receipt"
            THEN receipt_grants \cup { << context_id, requester_did >> }
            ELSE receipt_grants
    /\ last' = Call("other")
    /\ UNCHANGED << node_vars, now, payment_requirements, payment_receipts,
                    payment_channels, paid >>

Loop(t) ==
    /\ thr[t].pc = "loop"
    /\ LET me == thr[t]
       IN  IF Len(payment_channels) # me.size
           THEN thr' = [thr EXCEPT ![t] =
                    [me EXCEPT !.pc = "idle", !.result = "RuntimeError"]]
           ELSE IF me.idx > me.size
           THEN thr' = [thr EXCEPT ![t] = [me EXCEPT !.pc = "idle", !.result = "402"]]
           ELSE IF ChannelCovers(payment_channels[me.idx], me.requester_did, me.amount)
           THEN thr' = [thr EXCEPT ![t] = [me EXCEPT !.pc = "read", !.channel = me.idx]]
           ELSE thr' = [thr EXCEPT ![t] = [me EXCEPT !.idx = me.idx + 1]]
    /\ last' = Call("other")
    /\ UNCHANGED << node_vars, now, payment_requirements, payment_receipts,
                    payment_channels, paid, receipt_grants, calls >>

Read(t) ==
    /\ thr[t].pc = "read"
    /\ thr' = [thr EXCEPT ![t].pc = "write",
                          ![t].bal = payment_channels[thr[t].channel].current_balance]
    /\ last' = Call("other")
    /\ UNCHANGED << node_vars, now, payment_requirements, payment_receipts,
                    payment_channels, paid, receipt_grants, calls >>

Write(t) ==
    /\ thr[t].pc = "write"
    /\ payment_channels' =
            [payment_channels EXCEPT
                ![thr[t].channel].current_balance = Deduct(thr[t].bal, thr[t].amount)]
    /\ paid' = [paid EXCEPT ![thr[t].channel] = @ + thr[t].amount]
    /\ thr' = [thr EXCEPT ![t].pc = "idle", ![t].result = "granted"]
    /\ last' = Call("other")
    /\ UNCHANGED << node_vars, now, payment_requirements, payment_receipts,
                    receipt_grants, calls >>

(***************************************************************************)
(* psinet_core.py.  An Optional value is << >> for None and << v >> for a  *)
(* value v.  A content dict is the sequence of its key/value entries in    *)
(* insertion order.  A SHA-256 digest is represented by the text that was  *)
(* hashed (distinct texts have distinct digests), an Ed25519 signature by  *)
(* the key pair that made it and the bytes it was made over, and a public  *)
(* key by the name of its key pair; base64 and hex encodings are one-to-   *)
(* one and left out.                                                       *)
(***************************************************************************)
KeyPairs     == {"k1", "k2"}
ContextTypes == {"conversation", "memory"}

\* lines 211-213: the DID is derived from the public key
DidOf(key) == IF key = "k1" THEN "did:psinet:k1" ELSE "did:psinet:k2"

\* the public key in the DID document of a DID (lines 217-229)
PublicKeyOf(d) == CHOOSE key \in KeyPairs : DidOf(key) = d

\* The keys that occur in contents, in the order sort_keys puts them.
KeyNames == << "memory", "tags" >>

KeyRank(k) == CHOOSE i \in DOMAIN KeyNames : KeyNames[i] = k

content_memory   == << [key |-> "memory", value |-> "insight"] >>
content_tagged   == << [key |-> "memory", value |-> "insight"], [key |-> "tags", value |-> "ai"] >>
content_reversed == << [key |-> "tags", value |-> "ai"], [key |-> "memory", value |-> "insight"] >>
content_other    == << [key |-> "memory", value |-> "altered"] >>

\* json.dumps(..., sort_keys=True) of a content dict: its entries by key
SortedKeys(content) ==
    [ i \in DOMAIN content |->
        content[CHOOSE j \in DOMAIN content :
                    Cardinality({ m \in DOMAIN content :
                        KeyRank(content[m].key) < KeyRank(content[j].key) }) = i - 1] ]

(***************************************************************************)
(* ContextUnit.content_hash                                                *)
(***************************************************************************)
\* Faulty variant: the digest leaves the content out.
content_hash_without_content(context) ==
    [type |-> context.type, content |-> << >>, owner |-> context.owner,
     previous |-> context.previous, timestamp |-> context.timestamp]

\* Faulty variant: the digest covers the storage references too.
content_hash_with_storage_refs(context) ==
    [type |-> context.type, content |-> SortedKeys(context.content),
     owner |-> context.owner, previous |-> context.previous,
     timestamp |-> context.timestamp, storage_refs |-> context.storage_refs]

content_hash(context) ==
    [type |-> context.type, content |-> SortedKeys(context.content),
     owner |-> context.owner, previous |-> context.previous,
     timestamp |-> context.timestamp]

(***************************************************************************)
(* PsiNetNode._sign_context and verify_context                             *)
(***************************************************************************)
\* lines 339-345 and 362-368: the bytes that are signed
sig_data(context) ==
    [id |-> context.id, type |-> context.type, owner |-> context.owner,
     timestamp |-> context.timestamp, content_hash |-> content_hash(context)]

_sign_context(key, context) == [signer |-> key, data |-> sig_data(context)]

\* lines 352-375; a failed verification raises and is caught: False
verify_context_result(context, public_key) ==
    IF ~crypto \/ context.signature = << >>
    THEN FALSE
    ELSE /\ context.signature[1].signer = public_key
         /\ context.signature[1].data = sig_data(context)

\* The value a call on the node leaves in `out`.
Out(op) ==
    [op |-> op, ok |-> FALSE, error |-> None, unit |-> << >>, key |-> None,
     chain |-> 0, token |-> << >>, capability |-> None, context_id |-> << >>,
     at |-> 0, query |-> << >>, results |-> << >>]

(***************************************************************************)
(* PsiNetNode.generate_identity and load_identity                          *)
(***************************************************************************)
generate_identity ==
    /\ IF ~crypto
       THEN /\ out' = [Out("generate_identity") EXCEPT !.error = "RuntimeError"]
            /\ UNCHANGED << did, private_key, identities >>
       ELSE \E key \in KeyPairs \ identities :   \* a fresh key pair
                /\ private_key' = << key >>
                /\ did' = DidOf(key)
                /\ identities' = identities \cup {key}
                /\ out' = [Out("generate_identity") EXCEPT !.ok = TRUE]
    /\ UNCHANGED << access_tokens, crypto, contexts, chains, context_files >>
    /\ UNCHANGED << now, payment_requirements, payment_receipts, payment_channels,
                    paid, last, receipt_grants, thr, calls >>

load_identity(d) ==
    /\ IF PublicKeyOf(d) \notin identities
       THEN /\ out' = Out("load_identity")
            /\ UNCHANGED << did, private_key >>
       ELSE /\ did' = d
            /\ private_key' = IF crypto THEN << PublicKeyOf(d) >> ELSE private_key
            /\ out' = [Out("load_identity") EXCEPT !.ok = TRUE]
    /\ UNCHANGED << access_tokens, crypto, identities, contexts, chains, context_files >>
    /\ UNCHANGED << now, payment_requirements, payment_receipts, payment_channels,
                    paid, last, receipt_grants, thr, calls >>

(***************************************************************************)
(* PsiNetNode.create_context                                               *)
(***************************************************************************)
identity_required_never(d) == FALSE

identity_required(d) == d = None

metadata_version == << [key |-> "version", value |-> "1.0"] >>

create_context(context_type, content, previous, metadata, saved) ==
    /\ Len(contexts) < MaxUnits
    /\ IF identity_required(did)
       THEN /\ out' = [Out("create_context") EXCEPT !.error = "RuntimeError"]
            /\ UNCHANGED << contexts, context_files >>
       ELSE LET draft == [id |-> None, type |-> context_type, content |-> content,
                          owner |-> did, previous |-> previous, timestamp |-> now,
                          signature |-> << >>, metadata |-> metadata,
                          storage_refs |-> << >>]
                hashed == [draft EXCEPT !.id = content_hash(draft)]
                context == IF crypto /\ private_key # << >>
                           THEN [hashed EXCEPT
                                    !.signature = << _sign_context(private_key[1], hashed) >>]
                           ELSE hashed
            IN  /\ contexts' = Put(contexts, context.id, context)
                /\ IF saved
                   THEN /\ context_files' = Put(context_files, context.id, context)
                        /\ out' = [Out("create_context") EXCEPT
                                       !.ok = TRUE, !.unit = << context >>]
                   ELSE /\ UNCHANGED context_files
                        /\ out' = [Out("create_context") EXCEPT
                                       !.error = "OSError"]
    /\ UNCHANGED << access_tokens, crypto, did, private_key, identities, chains >>
    /\ UNCHANGED << now, payment_requirements, payment_receipts, payment_channels,
                    paid, last, receipt_grants, thr, calls >>

(***************************************************************************)
(* PsiNetNode.verify_context: any unit object and any public key           *)
(***************************************************************************)
verify_context(context, public_key) ==
    /\ out' = [Out("verify_context") EXCEPT
                    !.ok = verify_context_result(context, public_key),
                    !.unit = << context >>, !.key = public_key]
    /\ UNCHANGED << access_tokens, crypto, did, private_key, identities, contexts, chains,
                    context_files >>
    /\ UNCHANGED << now, payment_requirements, payment_receipts, payment_channels,
                    paid, last, receipt_grants, thr, calls >>

(***************************************************************************)
(* The object create_context returns is the object it stored (lines        *)
(* 327-331) and ContextUnit is a mutable dataclass: an assignment to       *)
(* context.previous changes the stored unit; the file saved at creation    *)
(* keeps what was created.                                                 *)
(***************************************************************************)
set_previous(i, previous) ==
    /\ i \in DOMAIN contexts
    /\ contexts' = [contexts EXCEPT ![i].value.previous = previous]
    /\ out' = Out("set_previous")
    /\ UNCHANGED << access_tokens, crypto, did, private_key, identities, chains, context_files >>
    /\ UNCHANGED << now, payment_requirements, payment_receipts, payment_channels,
                    paid, last, receipt_grants, thr, calls >>

(***************************************************************************)
(* PsiNetNode.create_chain: the chain id is a digest over the DID, the ids *)
(* and time.time(), fresh for every call; a chain is identified by its     *)
(* position in the dict.                                                   *)
(***************************************************************************)
create_chain(context_ids) ==
    /\ Len(chains) < MaxChains
    /\ IF did = None
       THEN /\ out' = [Out("create_chain") EXCEPT !.error = "RuntimeError"]
            /\ UNCHANGED chains
       ELSE /\ chains' = Append(chains, [contexts |-> context_ids, owner |-> did,
                                         created |-> now])
            /\ out' = [Out("create_chain") EXCEPT !.ok = TRUE,
                                                  !.chain = Len(chains) + 1]
    /\ UNCHANGED << access_tokens, crypto, did, private_key, identities, contexts, context_files >>
    /\ UNCHANGED << now, payment_requirements, payment_receipts, payment_channels,
                    paid, last, receipt_grants, thr, calls >>

(***************************************************************************)
(* PsiNetNode.verify_chain                                                 *)
(***************************************************************************)
\* Faulty variant: every unit is expected to point at itself.
LinkOK_to_self(context, previous_id) == context.previous = << context.id >>

\* line 393: context.previous != previous_id
LinkOK(context, previous_id) == context.previous = previous_id

HashOK_skipped(context) == TRUE

\* line 398: context.id != context.content_hash()
HashOK(context) == context.id = content_hash(context)

RECURSIVE Walk_presence_only(_, _, _)
\* Faulty variant: the loop only looks whether the units are there.
Walk_presence_only(context_ids, i, previous_id) ==
    IF i > Len(context_ids) THEN TRUE
    ELSE IF context_ids[i] \notin Keys(contexts) THEN FALSE
    ELSE Walk_presence_only(context_ids, i + 1, << context_ids[i] >>)

RECURSIVE Walk(_, _, _)
\* lines 385-402: the loop from position i on, previous_id being the id of
\* the unit before
Walk(context_ids, i, previous_id) ==
    IF i > Len(context_ids) THEN TRUE
    ELSE IF context_ids[i] \notin Keys(contexts) THEN FALSE
    ELSE IF ~LinkOK(Get(contexts, context_ids[i]), previous_id) THEN FALSE
    ELSE IF ~HashOK(Get(contexts, context_ids[i])) THEN FALSE
    ELSE Walk(context_ids, i + 1, << context_ids[i] >>)

verify_chain_result(chain_id) ==
    IF chain_id \notin DOMAIN chains
    THEN FALSE
    ELSE Walk(chains[chain_id].contexts, 1, << >>)

verify_chain(chain_id) ==
    /\ out' = [Out("verify_chain") EXCEPT !.ok = verify_chain_result(chain_id),
                                          !.chain = chain_id]
    /\ UNCHANGED << access_tokens, crypto, did, private_key, identities, contexts, chains,
                    context_files >>
    /\ UNCHANGED << now, payment_requirements, payment_receipts, payment_channels,
                    paid, last, receipt_grants, thr, calls >>

(***************************************************************************)
(* PsiNetNode.load_context: the file is read only when the id is not in    *)
(* memory, and is stored under the id that was asked for.                  *)
(***************************************************************************)
load_context(context_id) ==
    /\ IF context_id \in Keys(contexts)
       THEN /\ out' = [Out("load_context") EXCEPT
                            !.ok = TRUE, !.unit = << Get(contexts, context_id) >>]
            /\ UNCHANGED contexts
       ELSE IF context_id \notin Keys(context_files)
       THEN /\ out' = Out("load_context")
            /\ UNCHANGED contexts
       ELSE /\ Len(contexts) < MaxUnits
            /\ contexts' = Put(contexts, context_id, Get(context_files, context_id))
            /\ out' = [Out("load_context") EXCEPT
                            !.ok = TRUE, !.unit = << Get(context_files, context_id) >>]
    /\ UNCHANGED << access_tokens, crypto, did, private_key, identities, chains, context_files >>
    /\ UNCHANGED << now, payment_requirements, payment_receipts, payment_channels,
                    paid, last, receipt_grants, thr, calls >>

(***************************************************************************)
(* PsiNetNode.import_context: data is the unit the JSON file holds.        *)
(***************************************************************************)
import_context(data) ==
    /\ data.id \in Keys(contexts) \/ Len(contexts) < MaxUnits
    /\ contexts' = Put(contexts, data.id, data)
    /\ context_files' = Put(context_files, data.id, data)
    /\ out' = [Out("import_context") EXCEPT !.ok = TRUE, !.unit = << data >>]
    /\ UNCHANGED << access_tokens, crypto, did, private_key, identities, chains >>
    /\ UNCHANGED << now, payment_requirements, payment_receipts, payment_channels,
                    paid, last, receipt_grants, thr, calls >>

(***************************************************************************)
(* PsiNetNode.publish_to_ipfs on a stored unit; `published` tells whether  *)
(* the IPFS daemon answered 200.  publish_to_arweave changes nothing.      *)
(***************************************************************************)
publish_to_ipfs(i, published) ==
    /\ i \in DOMAIN contexts
    /\ IF published
       THEN LET context == [contexts[i].value EXCEPT !.storage_refs = << "ipfs" >>]
            IN  /\ contexts' = [contexts EXCEPT ![i].value = context]
                /\ context_files' = Put(context_files, context.id, context)
                /\ out' = [Out("publish_to_ipfs") EXCEPT !.ok = TRUE,
                                                         !.unit = << context >>]
       ELSE /\ out' = Out("publish_to_ipfs")
            /\ UNCHANGED << contexts, context_files >>
    /\ UNCHANGED << access_tokens, crypto, did, private_key, identities, chains >>
    /\ UNCHANGED << now, payment_requirements, payment_receipts, payment_channels,
                    paid, last, receipt_grants, thr, calls >>

(***************************************************************************)
(* AccessCapability, AccessToken, PsiNetNode.grant_access and check_access.*)
(* The expires text of a token is the hour it denotes and whether the ISO  *)
(* form is followed by "Z".                                                *)
(***************************************************************************)
READ  == "read"
WRITE == "write"
ADMIN == "admin"

\* AccessToken.is_expired starts with datetime.fromisoformat(self.expires).
\* On a text ending in "Z" that call raises ValueError before Python 3.11;
\* from 3.11 it returns an aware datetime and `datetime.utcnow() > expires`
\* raises TypeError (naive against aware).
is_expired_errors(token) ==
    IF token.expires.Z THEN {"ValueError", "TypeError"} ELSE {}

token_is_expired(token) == now > token.expires.time

capability_matches_hierarchical(token, capability) ==
    token.capability = capability \/ token.capability = ADMIN

capability_matches(token, capability) == token.capability = capability

\* `if context_id and token.context_id != context_id: return False`
context_matches(token, context_id) ==
    context_id = << >> \/ token.context_id = context_id

check_access_result_signed(token, capability, context_id) ==
    /\ token.signature # << >>
    /\ ~token_is_expired(token)
    /\ capability_matches(token, capability)
    /\ context_matches(token, context_id)

check_access_result(token, capability, context_id) ==
    IF token_is_expired(token) THEN FALSE
    ELSE IF ~capability_matches(token, capability) THEN FALSE
    ELSE IF ~context_matches(token, context_id) THEN FALSE
    ELSE TRUE

token_data(token) ==
    [capability |-> token.capability, granted_to |-> token.granted_to,
     granted_by |-> token.granted_by, expires |-> token.expires,
     context_id |-> token.context_id]

grant_access(capability, granted_to_did, context_id, expires_in_hours) ==
    /\ Len(access_tokens) < MaxTokens
    /\ IF did = None
       THEN /\ out' = [Out("grant_access") EXCEPT !.error = "RuntimeError"]
            /\ UNCHANGED access_tokens
       ELSE LET unsigned == [capability |-> capability, granted_to |-> granted_to_did,
                             granted_by |-> did,
                             expires |-> [time |-> now + expires_in_hours, Z |-> TRUE],
                             context_id |-> context_id, signature |-> << >>]
                token == IF crypto /\ private_key # << >>
                         THEN [unsigned EXCEPT
                                  !.signature = << [signer |-> private_key[1],
                                                    data |-> token_data(unsigned)] >>]
                         ELSE unsigned
            IN  /\ access_tokens' = Append(access_tokens, token)
                /\ out' = [Out("grant_access") EXCEPT !.ok = TRUE, !.token = << token >>]
    /\ UNCHANGED << crypto, did, private_key, identities, contexts, chains,
                    context_files >>
    /\ UNCHANGED << now, payment_requirements, payment_receipts, payment_channels,
                    paid, last, receipt_grants, thr, calls >>

\* out.error = None: the call, made at hour out.at, returned out.ok; otherwise
\* it raised out.error
check_access(token, capability, context_id) ==
    /\ LET call == [Out("check_access") EXCEPT !.token = << token >>,
                        !.capability = capability, !.context_id = context_id,
                        !.at = now]
       IN  IF is_expired_errors(token) # {}
           THEN \E e \in is_expired_errors(token) : out' = [call EXCEPT !.error = e]
           ELSE out' = [call EXCEPT
                           !.ok = check_access_result(token, capability, context_id)]
    /\ UNCHANGED << access_tokens, crypto, did, private_key, identities, contexts,
                    chains, context_files >>
    /\ UNCHANGED << now, payment_requirements, payment_receipts, payment_channels,
                    paid, last, receipt_grants, thr, calls >>

(***************************************************************************)
(* PsiNetNode.query_contexts (SimplePsiNetNode.query_contexts is the same  *)
(* loop with no `after` filter).  A filter is << >> when the argument is   *)
(* None.                                                                   *)
(***************************************************************************)
RECURSIVE query_loop(_, _, _, _, _, _)
query_loop(i, results, context_type, owner, after, limit) ==
    IF i > Len(contexts) THEN results
    ELSE LET context == contexts[i].value
         IN  IF context_type # << >> /\ context.type # context_type[1]
             THEN query_loop(i + 1, results, context_type, owner, after, limit)
             ELSE IF owner # << >> /\ context.owner # owner[1]
             THEN query_loop(i + 1, results, context_type, owner, after, limit)
             ELSE IF after # << >> /\ context.timestamp <= after[1]
             THEN query_loop(i + 1, results, context_type, owner, after, limit)
             ELSE LET appended == Append(results, context)
                  IN  IF Len(appended) >= limit
                      THEN appended
                      ELSE query_loop(i + 1, appended, context_type, owner, after, limit)

query_contexts(context_type, owner, after, limit) ==
    /\ out' = [Out("query_contexts") EXCEPT
                   !.ok = TRUE,
                   !.query = << [context_type |-> context_type, owner |-> owner,
                                 after |-> after, limit |-> limit] >>,
                   !.results = query_loop(1, << >>, context_type, owner, after, limit)]
    /\ UNCHANGED << access_tokens, crypto, did, private_key, identities, contexts,
                    chains, context_files >>
    /\ UNCHANGED << now, payment_requirements, payment_receipts, payment_channels,
                    paid, last, receipt_grants, thr, calls >>

(***************************************************************************)
(* PaymentManager.__init__ and PsiNetNode.__init__                         *)
(***************************************************************************)
Init ==
    /\ now = 0
    /\ payment_requirements = << >>
    /\ payment_receipts = << >>
    /\ payment_channels = << >>
    /\ paid = << >>
    /\ last = Call("other")
    /\ receipt_grants = {}
    /\ thr = [t \in Threads |-> IdleThread]
    /\ calls = 0
    /\ crypto = TRUE
    /\ did = None
    /\ private_key = << >>
    /\ identities = {}
    /\ contexts = << >>
    /\ chains = << >>
    /\ access_tokens = << >>
    /\ context_files = << >>
    /\ out = Out("none")

(***************************************************************************)
(* Spec: sequential use of the manager, every call running to completion;  *)
(* prices and balances vary, one currency, receipts for priced contexts.   *)
(***************************************************************************)
Next ==
    \/ \E c \in Priced, a \in {1, 2}, h \in Hours :
            create_payment_requirement(c, a, BITCOIN, "addr1", h)
    \/ \E i \in DOMAIN payment_requirements, p \in Payers, c \in Priced :
            create_payment_receipt(payment_requirements[i].value, p, c)
    \/ \E r \in DOMAIN payment_receipts, answer \in BOOLEAN :
            verify_payment(r, answer)
    \/ \E c \in Contexts, r \in Requesters :
            check_payment_for_context(c, r)
    \/ \E p \in Payers :
            open_payment_channel(p, 2, BITCOIN, 0)
    \/ \E ch \in DOMAIN payment_channels :
            close_payment_channel(ch)
    \/ Tick

Spec == Init /\ [][Next]_vars

(***************************************************************************)
(* SpecReceipts: sequential use, the life of receipts; currencies vary     *)
(* (one the verifier knows, one it does not) and so do the contexts that   *)
(* receipts are tagged with; one price.                                    *)
(***************************************************************************)
NextReceipts ==
    \/ \E c \in Priced, cur \in {BITCOIN, CUSTOM_TOKEN}, h \in Hours :
            create_payment_requirement(c, 1, cur, "addr1", h)
    \/ \E i \in DOMAIN payment_requirements, p \in Payers, c \in Contexts :
            create_payment_receipt(payment_requirements[i].value, p, c)
    \/ \E r \in DOMAIN payment_receipts, answer \in BOOLEAN :
            verify_payment(r, answer)
    \/ \E c \in Contexts, r \in Requesters :
            check_payment_for_context(c, r)
    \/ \E p \in Payers :
            open_payment_channel(p, 1, BITCOIN, 0)
    \/ \E ch \in DOMAIN payment_channels :
            close_payment_channel(ch)
    \/ Tick

SpecReceipts == Init /\ [][NextReceipts]_vars

(***************************************************************************)
(* SpecConc: check_payment_for_context called from concurrent threads.     *)
(***************************************************************************)
NextConc ==
    \/ \E c \in Priced, a \in {1, 2} :
            create_payment_requirement(c, a, BITCOIN, "addr1", 0)
    \/ \E p \in Payers :
            open_payment_channel(p, 2, BITCOIN, 0)
    \/ \E ch \in DOMAIN payment_channels :
            close_payment_channel(ch)
    \/ \E t \in Threads, c \in Priced, r \in Requesters :
            Begin(t, c, r)
    \/ \E t \in Threads : Loop(t)
    \/ \E t \in Threads : Read(t)
    \/ \E t \in Threads : Write(t)

SpecConc == Init /\ [][NextConc]_vars

(***************************************************************************)
(* SpecChannels: sequential micropayments as in examples/demo_payment.py   *)
(* (step 7), in units of the micro price: a channel of capacity 4, both    *)
(* contexts priced 1 or, above the capacity, 5; requirements never expire. *)
(***************************************************************************)
NextChannels ==
    \/ \E c \in Contexts, a \in {1, 5} :
            create_payment_requirement(c, a, BITCOIN, "addr1", 0)
    \/ \E p \in Payers :
            open_payment_channel(p, 4, BITCOIN, 30)
    \/ \E c \in Contexts, r \in Requesters :
            check_payment_for_context(c, r)
    \/ \E ch \in DOMAIN payment_channels :
            close_payment_channel(ch)

SpecChannels == Init /\ [][NextChannels]_vars

(***************************************************************************)
(* SpecRequirements: the requirement of one context is registered again    *)
(* and again with another price or expiry while calls are paid through a   *)
(* channel of capacity 3.                                                  *)
(***************************************************************************)
NextRequirements ==
    \/ \E c \in Priced, a \in {1, 2}, h \in Hours :
            create_payment_requirement(c, a, BITCOIN, "addr1", h)
    \/ \E p \in Payers :
            open_payment_channel(p, 3, BITCOIN, 30)
    \/ \E c \in Contexts, r \in Requesters :
            check_payment_for_context(c, r)
    \/ Tick

SpecRequirements == Init /\ [][NextRequirements]_vars

(***************************************************************************)
(* SpecTagged: two contexts are priced in the same currency, each with its *)
(* own price and recipient address; a receipt is built from a requirement  *)
(* the caller holds and tagged with either context, verified, and          *)
(* presented.                                                              *)
(***************************************************************************)
NextTagged ==
    \/ \E c \in Contexts, a \in {1, 2}, addr \in {"addr1", "addr2"} :
            create_payment_requirement(c, a, BITCOIN, addr, 0)
    \/ \E i \in DOMAIN payment_requirements, p \in Payers, c \in Contexts :
            create_payment_receipt(payment_requirements[i].value, p, c)
    \/ \E r \in DOMAIN payment_receipts, answer \in BOOLEAN :
            verify_payment(r, answer)
    \/ \E c \in Contexts, r \in Payers :
            check_payment_for_context(c, r)

SpecTagged == Init /\ [][NextTagged]_vars

(***************************************************************************)
(* SpecCurrencies: requirements and channels in two currencies.            *)
(***************************************************************************)
NextCurrencies ==
    \/ \E c \in Priced, cur \in {BITCOIN, ETHEREUM} :
            create_payment_requirement(c, 1, cur, "addr1", 0)
    \/ \E p \in Payers, cur \in {BITCOIN, ETHEREUM} :
            open_payment_channel(p, 2, cur, 30)
    \/ \E c \in Contexts, r \in Requesters :
            check_payment_for_context(c, r)

SpecCurrencies == Init /\ [][NextCurrencies]_vars

(***************************************************************************)
(* SpecFrame: two requesters, each of whom may open a channel and ask for   *)
(* the priced context, receipts of one of them; one price, one currency,   *)
(* no expiry.                                                              *)
(***************************************************************************)
NextFrame ==
    \/ \E c \in Priced :
            create_payment_requirement(c, 1, BITCOIN, "addr1", 0)
    \/ \E i \in DOMAIN payment_requirements, p \in Payers, c \in Priced :
            create_payment_receipt(payment_requirements[i].value, p, c)
    \/ \E r \in DOMAIN payment_receipts, answer \in BOOLEAN :
            verify_payment(r, answer)
    \/ \E p \in Requesters :
            open_payment_channel(p, 1, BITCOIN, 30)
    \/ \E ch \in DOMAIN payment_channels :
            close_payment_channel(ch)
    \/ \E c \in Contexts, r \in Requesters :
            check_payment_for_context(c, r)

SpecFrame == Init /\ [][NextFrame]_vars

(***************************************************************************)
(* The nodes of the ledger specifications start with a storage directory   *)
(* that holds the identity k1 saved by an earlier run, in a process with   *)
(* or without the cryptography package.                                    *)
(***************************************************************************)
NoPayments ==
    /\ now = 0
    /\ payment_requirements = << >>
    /\ payment_receipts = << >>
    /\ payment_channels = << >>
    /\ paid = << >>
    /\ last = Call("other")
    /\ receipt_grants = {}
    /\ thr = [t \in Threads |-> IdleThread]
    /\ calls = 0

InitNode ==
    /\ NoPayments
    /\ crypto \in BOOLEAN
    /\ did = None
    /\ private_key = << >>
    /\ identities = {"k1"}
    /\ contexts = << >>
    /\ chains = << >>
    /\ access_tokens = << >>
    /\ context_files = << >>
    /\ out = Out("none")

\* The units a caller can hand to verify_context: a stored unit, or a copy
\* of one with a single field changed and the signature kept.
Units == { contexts[i].value : i \in DOMAIN contexts }

Altered(u) ==
    { [u EXCEPT !.type = t] : t \in ContextTypes }
    \cup { [u EXCEPT !.content = c] :
            c \in {content_memory, content_tagged, content_reversed, content_other} }
    \cup { [u EXCEPT !.owner = DidOf(key)] : key \in KeyPairs }
    \cup { [u EXCEPT !.previous = p] :
            p \in {<< >>} \cup { << v.id >> : v \in Units } }
    \cup { [u EXCEPT !.timestamp = t] : t \in {u.timestamp, u.timestamp + 1} }

(***************************************************************************)
(* SpecVerify: units are created and their signatures verified.            *)
(***************************************************************************)
NextVerify ==
    \/ generate_identity
    \/ \E key \in KeyPairs : load_identity(DidOf(key))
    \/ \E previous \in {<< >>} \cup { << u.id >> : u \in Units } :
            create_context("memory", content_tagged, previous, << >>, TRUE)
    \/ \E u \in Units, key \in KeyPairs :
        \E context \in Altered(u) : verify_context(context, key)

SpecVerify == InitNode /\ [][NextVerify]_vars

(***************************************************************************)
(* SpecStore: the unit store under create_context, import_context,         *)
(* load_context and publish_to_ipfs.  The storage directory may hold a     *)
(* unit that an earlier run of the node created.  The files imported are   *)
(* exports of stored units, as written or with the content edited.         *)
(***************************************************************************)
EarlierDraft ==
    [id |-> None, type |-> "memory", content |-> content_tagged,
     owner |-> DidOf("k1"), previous |-> << >>, timestamp |-> 0,
     signature |-> << >>, metadata |-> << >>, storage_refs |-> << >>]

EarlierUnit ==
    [EarlierDraft EXCEPT !.id = content_hash(EarlierDraft),
        !.signature = << _sign_context("k1", [EarlierDraft EXCEPT
                                                !.id = content_hash(EarlierDraft)]) >>]

\* export_context writes a stored unit to a file; the file is imported as
\* written or with its content edited.
Exported(u) ==
    {u} \cup { [u EXCEPT !.content = c] : c \in {content_memory, content_other} }

InitStore ==
    /\ NoPayments
    /\ crypto \in BOOLEAN
    /\ did = None
    /\ private_key = << >>
    /\ identities = {"k1"}
    /\ contexts = << >>
    /\ chains = << >>
    /\ access_tokens = << >>
    /\ context_files \in { << >>, << [key |-> EarlierUnit.id, value |-> EarlierUnit] >> }
    /\ out = Out("none")

NextStore ==
    \/ load_identity(DidOf("k1"))
    \/ \E content \in {content_memory, content_reversed} :
            create_context("memory", content, << >>, << >>, TRUE)
    \/ \E u \in Units : \E data \in Exported(u) : import_context(data)
    \/ \E context_id \in Keys(context_files) : load_context(context_id)
    \/ \E i \in DOMAIN contexts, published \in BOOLEAN : publish_to_ipfs(i, published)
    \/ Tick

SpecStore == InitStore /\ [][NextStore]_vars

(***************************************************************************)
(* SpecChain: units are created and linked, chains are created over any    *)
(* list of stored ids and verified, and the previous pointer of a stored   *)
(* unit is overwritten.                                                    *)
(***************************************************************************)
UnitIds == { contexts[i].key : i \in DOMAIN contexts }

\* the lists of distinct stored ids
ChainLists ==
    UNION { { l \in [1..n -> UnitIds] : \A i, j \in 1..n : l[i] = l[j] => i = j } :
                n \in 0..MaxUnits }

NextChain ==
    \/ load_identity(DidOf("k1"))
    \/ \E previous \in {<< >>} \cup { << id >> : id \in UnitIds } :
            create_context("memory", content_memory, previous, << >>, TRUE)
    \/ \E context_ids \in ChainLists \cup {<< EarlierUnit.id >>} :
            \* create_chain takes any list: the last one names no stored unit
            create_chain(context_ids)
    \/ \E chain_id \in 1..(Len(chains) + 1) : verify_chain(chain_id)
    \/ \E i \in DOMAIN contexts,
          previous \in {<< >>} \cup { << id >> : id \in UnitIds } :
            \* one unit at a time differs from what was created
            /\ \A j \in DOMAIN contexts \ {i} : contexts[j] = context_files[j]
            /\ set_previous(i, previous)

\* chains involve no signature: the cryptography package is available
InitChain == InitNode /\ crypto = TRUE

SpecChain == InitChain /\ [][NextChain]_vars

(***************************************************************************)
(* SpecCreate: create_context alone, on a node with or without a bound     *)
(* identity and with or without the cryptography package, with either      *)
(* metadata, and with the write of the unit's file succeeding or failing.  *)
(***************************************************************************)
NextCreate ==
    \/ generate_identity
    \/ load_identity(DidOf("k1"))
    \/ \E metadata \in {<< >>, metadata_version}, saved \in BOOLEAN :
            create_context("memory", content_memory, << >>, metadata, saved)
    \/ Tick

SpecCreate == InitNode /\ [][NextCreate]_vars

(***************************************************************************)
(* SpecAccess: tokens are granted and checked while the clock advances.    *)
(* A token presented to check_access is one the node issued or one the     *)
(* caller built with AccessToken(...), its expires text being an ISO time  *)
(* with no suffix, as datetime.isoformat() gives.                          *)
(***************************************************************************)
IssuedTokens == { access_tokens[i] : i \in DOMAIN access_tokens }

BuiltTokens ==
    { [capability |-> c, granted_to |-> "did:psinet:alice", granted_by |-> DidOf("k1"),
       expires |-> [time |-> t, Z |-> FALSE], context_id |-> x, signature |-> << >>] :
        c \in {READ, ADMIN}, t \in {0, MaxTime}, x \in {<< >>, << "ctx1" >>} }

NextAccess ==
    \/ load_identity(DidOf("k1"))
    \/ \E capability \in {READ, ADMIN}, context_id \in {<< >>, << "ctx1" >>} :
            grant_access(capability, "did:psinet:alice", context_id, 1)
    \/ \E token \in IssuedTokens \cup BuiltTokens, capability \in {READ, WRITE},
          context_id \in {<< >>} \cup { << c >> : c \in Contexts } :
            check_access(token, capability, context_id)
    \/ Tick

SpecAccess == InitNode /\ [][NextAccess]_vars

(***************************************************************************)
(* SpecQuery: units of two types are created by two identities at          *)
(* different hours and the store is queried with every combination of      *)
(* filters and every limit from 0 up.                                      *)
(***************************************************************************)
NextQuery ==
    \/ generate_identity
    \/ load_identity(DidOf("k1"))
    \/ \E context_type \in ContextTypes :
            create_context(context_type, content_memory, << >>, << >>, TRUE)
    \/ \E context_type \in {<< >>, << "memory" >>},
          owner \in {<< >>, << DidOf("k1") >>},
          after \in {<< >>, << 0 >>, << 1 >>},
          limit \in 0..MaxUnits :
            query_contexts(context_type, owner, after, limit)
    \/ Tick

SpecQuery == InitChain /\ [][NextQuery]_vars

(***************************************************************************)
(* SpecCovered: units are created with either metadata, created again      *)
(* with the other, published to IPFS, and chains of them are verified.     *)
(***************************************************************************)
NextCovered ==
    \/ load_identity(DidOf("k1"))
    \/ \E previous \in {<< >>} \cup { << id >> : id \in UnitIds },
          metadata \in {<< >>, metadata_version} :
            create_context("memory", content_memory, previous, metadata, TRUE)
    \/ \E i \in DOMAIN contexts, published \in BOOLEAN : publish_to_ipfs(i, published)
    \/ \E n \in 0..Len(contexts) :
            \* the first n units of the store, in the order they were created
            create_chain([i \in 1..n |-> contexts[i].key])
    \/ \E chain_id \in DOMAIN chains : verify_chain(chain_id)

SpecCovered == InitChain /\ [][NextCovered]_vars

(***************************************************************************)
(* Vocabulary of the properties, stated on the data and not through the    *)
(* operators of the manager.                                               *)
(***************************************************************************)
\* The step is a call check_payment_for_context(c, r) running to completion.
IsCheck(c, r) ==
    /\ last'.op = "check_payment_for_context"
    /\ last'.context_id = c
    /\ last'.requester_did = r

HasRequirement(c) ==
    \E i \in DOMAIN payment_requirements : payment_requirements[i].key = c

RequirementOf(c) ==
    payment_requirements[
        CHOOSE i \in DOMAIN payment_requirements : payment_requirements[i].key = c
    ].value

Unexpired(c) ==
    \/ RequirementOf(c).expires = NoExpiry
    \/ now <= RequirementOf(c).expires[1]

ConfirmedReceipt(c, r) ==
    \E i \in DOMAIN payment_receipts :
        /\ payment_receipts[i].context_id = c
        /\ payment_receipts[i].payer_did = r
        /\ payment_receipts[i].status = CONFIRMED

\* The open channels from r to the node owner that hold at least amount a.
Funded(r, a) ==
    { i \in DOMAIN payment_channels :
        /\ payment_channels[i].payer_did = r
        /\ payment_channels[i].recipient_did = node_did
        /\ payment_channels[i].status = "open"
        /\ payment_channels[i].current_balance >= a }

(***************************************************************************)
(* C1.  Concurrent calls never grant more through a channel than the       *)
(* channel holds: the amounts of the calls that returned Granted through   *)
(* a channel sum to at most its capacity (with one price d, at most        *)
(* floor(C/d) calls are granted).                                          *)
(***************************************************************************)
C1_NoOverspend ==
    \A ch \in DOMAIN payment_channels :
        paid[ch] <= payment_channels[ch].total_capacity

(***************************************************************************)
(* C2.  In every reachable state every channel satisfies                   *)
(* 0 <= current_balance <= total_capacity.                                 *)
(***************************************************************************)
C2_BalanceInRange ==
    \A ch \in DOMAIN payment_channels :
        /\ 0 <= payment_channels[ch].current_balance
        /\ payment_channels[ch].current_balance <= payment_channels[ch].total_capacity

(***************************************************************************)
(* C3.  In every step the balance of an existing channel is unchanged or   *)
(* lower, and it is lower only in a step in which a call returns Granted   *)
(* through that channel.                                                   *)
(***************************************************************************)
C3_BalanceNeverIncreases ==
    [][ \A ch \in DOMAIN payment_channels :
            /\ payment_channels'[ch].current_balance
                    <= payment_channels[ch].current_balance
            /\ payment_channels'[ch].current_balance
                    < payment_channels[ch].current_balance
                  => paid'[ch] > paid[ch] ]_vars

(***************************************************************************)
(* C4.  A call for a context with an unexpired requirement of amount a,    *)
(* no CONFIRMED receipt of the requester and at least one open channel     *)
(* from the requester holding at least a returns Granted; exactly one such *)
(* channel loses exactly a and every other channel is unchanged.           *)
(***************************************************************************)
C4_DeductsExactlyOnce ==
    [][ \A c \in Contexts, r \in Requesters :
            ( /\ IsCheck(c, r)
              /\ HasRequirement(c)
              /\ Unexpired(c)
              /\ ~ConfirmedReceipt(c, r)
              /\ Funded(r, RequirementOf(c).amount) # {} )
            => /\ last'.granted
               /\ \E i \in Funded(r, RequirementOf(c).amount) :
                    payment_channels' =
                        [payment_channels EXCEPT
                            ![i].current_balance = @ - RequirementOf(c).amount] ]_vars

\* A call was granted through one channel while a second channel of the
\* same requester could have paid as well.
C4_Witness ==
    /\ last.op = "check_payment_for_context"
    /\ last.granted
    /\ last.via = "channel"
    /\ last.payment_requirement.amount > 0
    /\ \E j \in DOMAIN payment_channels :
        /\ j # last.channel
        /\ j \in Funded(last.requester_did, last.payment_requirement.amount)

(***************************************************************************)
(* C5.  A call for a context with an unexpired requirement, no CONFIRMED   *)
(* receipt of the requester and no open channel from the requester holding *)
(* the required amount returns a 402 response carrying the requirement,    *)
(* and changes no channel, receipt or requirement.                         *)
(***************************************************************************)
C5_PaymentRequired ==
    [][ \A c \in Contexts, r \in Requesters :
            ( /\ IsCheck(c, r)
              /\ HasRequirement(c)
              /\ Unexpired(c)
              /\ ~ConfirmedReceipt(c, r)
              /\ Funded(r, RequirementOf(c).amount) = {} )
            => /\ ~last'.granted
               /\ last'.status_code = 402
               /\ last'.payment_requirement = RequirementOf(c)
               /\ UNCHANGED << payment_channels, payment_receipts,
                               payment_requirements >> ]_vars

\* A 402 was returned to a requester who holds an open channel with some
\* balance, but less than the price.
C5_Witness ==
    /\ last.op = "check_payment_for_context"
    /\ last.status_code = 402
    /\ \E i \in DOMAIN payment_channels :
        /\ payment_channels[i].payer_did = last.requester_did
        /\ payment_channels[i].status = "open"
        /\ payment_channels[i].current_balance > 0
        /\ payment_channels[i].current_balance < last.payment_requirement.amount

(***************************************************************************)
(* C6.  When a CONFIRMED receipt exists for (context, requester) the call  *)
(* returns Granted and no channel is touched, also when the requester has  *)
(* an open channel with enough balance.                                    *)
(***************************************************************************)
C6_ReceiptBeforeChannel ==
    [][ \A c \in Contexts, r \in Requesters :
            (IsCheck(c, r) /\ ConfirmedReceipt(c, r))
            => /\ last'.granted
               /\ UNCHANGED payment_channels ]_vars

\* Granted by a receipt for a priced, unexpired context while a channel of
\* the requester could have paid.
C6_Witness ==
    /\ last.op = "check_payment_for_context"
    /\ last.granted
    /\ last.via = "receipt"
    /\ HasRequirement(last.context_id)
    /\ RequirementOf(last.context_id).amount > 0
    /\ Funded(last.requester_did, RequirementOf(last.context_id).amount) # {}

(***************************************************************************)
(* C7.  Once a call for (context, requester) has returned Granted because  *)
(* of a CONFIRMED receipt, every later call for the same pair returns      *)
(* Granted.                                                                *)
(***************************************************************************)
C7_PaidStaysGranted ==
    ( /\ last.op = "check_payment_for_context"
      /\ << last.context_id, last.requester_did >> \in receipt_grants )
    => last.granted

(***************************************************************************)
(* C8.  A receipt is created PENDING, and for an unexpired requirement     *)
(* with no channel coverage a call returns Granted only if a CONFIRMED     *)
(* receipt of the requester for the context exists.                        *)
(***************************************************************************)
C8_OnlyConfirmedReceiptsGrant ==
    [][ /\ Len(payment_receipts') > Len(payment_receipts)
            => payment_receipts'[Len(payment_receipts')].status = PENDING
        /\ \A c \in Contexts, r \in Requesters :
            ( /\ IsCheck(c, r)
              /\ HasRequirement(c)
              /\ Unexpired(c)
              /\ Funded(r, RequirementOf(c).amount) = {}
              /\ last'.granted )
            => ConfirmedReceipt(c, r) ]_vars

\* A 402 was returned although the requester has a receipt for the context,
\* one that is PENDING or FAILED.
C8_Witness ==
    /\ last.op = "check_payment_for_context"
    /\ last.status_code = 402
    /\ \E i \in DOMAIN payment_receipts :
        /\ payment_receipts[i].context_id = last.context_id
        /\ payment_receipts[i].payer_did = last.requester_did
        /\ payment_receipts[i].status = FAILED

(***************************************************************************)
(* C9.  After every verify_payment call the receipt is CONFIRMED if the    *)
(* call returned true and FAILED if it returned false.                     *)
(***************************************************************************)
C9_StatusFollowsResult ==
    last.op = "verify_payment"
    => payment_receipts[last.receipt].status =
            IF last.verified THEN CONFIRMED ELSE FAILED

(***************************************************************************)
(* C10.  A receipt that is CONFIRMED never afterwards is PENDING or        *)
(* FAILED: in every step a CONFIRMED receipt stays CONFIRMED or becomes    *)
(* REFUNDED.                                                               *)
(***************************************************************************)
C10_ConfirmedIsFinal ==
    [][ \A i \in DOMAIN payment_receipts :
            payment_receipts[i].status = CONFIRMED
            => payment_receipts'[i].status \in {CONFIRMED, REFUNDED} ]_vars

(***************************************************************************)
(* C11.  Channel expiry is enforced at call time: no call deducts from, or *)
(* grants access through, a channel whose expiry timestamp is earlier than *)
(* the current time, whatever its status and balance.                      *)
(***************************************************************************)
C11_ExpiredChannelUnused ==
    [][ \A ch \in DOMAIN payment_channels :
            payment_channels[ch].expires < now
            => /\ payment_channels'[ch].current_balance
                    = payment_channels[ch].current_balance
               /\ ~(last'.op = "check_payment_for_context" /\ last'.granted
                        /\ last'.via = "channel" /\ last'.channel = ch) ]_vars

(***************************************************************************)
(* C12.  A closed channel stays closed and its balance never changes       *)
(* again, whether later calls run after the close or race with it; the     *)
(* close itself leaves the balance unchanged.                              *)
(***************************************************************************)
C12_ClosedIsFrozen ==
    [][ \A ch \in DOMAIN payment_channels :
            /\ payment_channels[ch].status = "closed"
                => /\ payment_channels'[ch].status = "closed"
                   /\ payment_channels'[ch].current_balance
                        = payment_channels[ch].current_balance
            /\ ( payment_channels[ch].status = "open"
                 /\ payment_channels'[ch].status = "closed" )
                => payment_channels'[ch].current_balance
                        = payment_channels[ch].current_balance ]_vars

(***************************************************************************)
(* C13.  A call for a context with no registered requirement returns       *)
(* Granted, for every requester, and changes no requirement, receipt or    *)
(* channel.                                                                *)
(***************************************************************************)
C13_FreeContextGranted ==
    [][ \A c \in Contexts, r \in Requesters :
            (IsCheck(c, r) /\ ~HasRequirement(c))
            => /\ last'.granted
               /\ UNCHANGED << payment_requirements, payment_receipts,
                               payment_channels >> ]_vars

\* A free context was granted to a requester who holds a channel with
\* balance, while another context is priced and unexpired.
C13_Witness ==
    /\ last.op = "check_payment_for_context"
    /\ last.granted
    /\ ~HasRequirement(last.context_id)
    /\ \E c \in Contexts : HasRequirement(c) /\ Unexpired(c)
    /\ Funded(last.requester_did, 1) # {}

(***************************************************************************)
(* C14.  When the requirement of the context has an expiry and the current *)
(* time is past it, the call returns Granted for every requester, with no  *)
(* receipt needed and no channel deducted from; a requirement without an   *)
(* expiry is never treated as expired, so without a CONFIRMED receipt and  *)
(* without a funded channel the call is refused at any time.               *)
(***************************************************************************)
C14_LapsedRequirementIsFree ==
    [][ \A c \in Contexts, r \in Requesters :
            (IsCheck(c, r) /\ HasRequirement(c))
            => /\ ( /\ RequirementOf(c).expires # NoExpiry
                    /\ now > RequirementOf(c).expires[1] )
                  => /\ last'.granted
                     /\ UNCHANGED << payment_channels, payment_receipts >>
               /\ ( /\ RequirementOf(c).expires = NoExpiry
                    /\ ~ConfirmedReceipt(c, r)
                    /\ Funded(r, RequirementOf(c).amount) = {} )
                  => ~last'.granted ]_vars

\* A lapsed requirement was waived for a requester who has no CONFIRMED
\* receipt for the context and holds a channel that could have paid.
C14_Witness ==
    /\ last.op = "check_payment_for_context"
    /\ last.granted
    /\ HasRequirement(last.context_id)
    /\ RequirementOf(last.context_id).expires # NoExpiry
    /\ now > RequirementOf(last.context_id).expires[1]
    /\ ~ConfirmedReceipt(last.context_id, last.requester_did)
    /\ RequirementOf(last.context_id).amount > 0
    /\ Funded(last.requester_did, RequirementOf(last.context_id).amount) # {}

(***************************************************************************)
(* C15.  In a sequential run a channel of capacity C through which the     *)
(* amounts of k granted calls were paid holds C minus their sum (C - k*d   *)
(* when each context is priced d), and a call for a context priced above   *)
(* the remaining balance returns PaymentRequired and leaves the balance    *)
(* unchanged, although the channel is open.                                *)
(***************************************************************************)
C15_BalanceIsCapacityMinusPaid ==
    [][ /\ \A ch \in DOMAIN payment_channels' :
                payment_channels'[ch].current_balance
                    = payment_channels'[ch].total_capacity - paid'[ch]
        /\ \A c \in Contexts, r \in Requesters :
            ( /\ IsCheck(c, r)
              /\ HasRequirement(c)
              /\ Unexpired(c)
              /\ ~ConfirmedReceipt(c, r)
              /\ \A ch \in DOMAIN payment_channels :
                    payment_channels[ch].payer_did = r
                    => payment_channels[ch].current_balance < RequirementOf(c).amount )
            => /\ ~last'.granted
               /\ last'.status_code = 402
               /\ UNCHANGED payment_channels ]_vars

\* Three calls priced 1 were paid through a channel of capacity 4, which
\* holds 1 and is open, and a call priced 5 was then refused.
C15_Witness ==
    /\ last.op = "check_payment_for_context"
    /\ last.status_code = 402
    /\ last.payment_requirement.amount = 5
    /\ \E ch \in DOMAIN payment_channels :
        /\ payment_channels[ch].payer_did = last.requester_did
        /\ payment_channels[ch].status = "open"
        /\ payment_channels[ch].total_capacity = 4
        /\ paid[ch] = 3
        /\ payment_channels[ch].current_balance = 1

(***************************************************************************)
(* Vocabulary of the ledger properties.                                    *)
(***************************************************************************)
\* The content dict as Python compares it: its entries, whatever their order.
Entries(content) == { content[i] : i \in DOMAIN content }

\* The digest of the canonical JSON text of the five hashed fields.
Digest(u) ==
    [type |-> u.type, content |-> SortedKeys(u.content), owner |-> u.owner,
     previous |-> u.previous, timestamp |-> u.timestamp]

SameFive(u, v) ==
    /\ u.type = v.type
    /\ Entries(u.content) = Entries(v.content)
    /\ u.owner = v.owner
    /\ u.previous = v.previous
    /\ u.timestamp = v.timestamp

(***************************************************************************)
(* C16.  Every unit returned by create_context has id equal to the content *)
(* hash of its type, content, owner, previous and timestamp, and its       *)
(* signature verifies under the public key of the identity that created    *)
(* it.                                                                     *)
(***************************************************************************)
C16_CreatedUnitVerifies ==
    [][ (out'.op = "create_context" /\ out'.ok)
        => /\ out'.unit[1].id = Digest(out'.unit[1])
           /\ verify_context_result(out'.unit[1], PublicKeyOf(out'.unit[1].owner)) ]_vars

(***************************************************************************)
(* C19.  For a unit created and signed by create_context, a copy with its  *)
(* content, type, owner, previous or timestamp changed and the original    *)
(* signature kept does not verify under the creator's public key.          *)
(***************************************************************************)
C19_AlteredUnitFailsVerification ==
    [][ \A u \in Units :
            ( /\ out'.op = "verify_context"
              /\ u.signature # << >>
              /\ out'.unit[1].id = u.id
              /\ out'.unit[1].signature = u.signature
              /\ ~SameFive(out'.unit[1], u)
              /\ out'.key = PublicKeyOf(u.owner) )
            => ~out'.ok ]_vars

\* The same signed unit was verified under its creator's key twice: as
\* stored, with success, and with its content changed, without.
C19_Witness ==
    /\ out.op = "verify_context"
    /\ ~out.ok
    /\ \E u \in Units :
        /\ u.signature # << >>
        /\ verify_context_result(u, PublicKeyOf(u.owner))
        /\ out.unit[1] = [u EXCEPT !.content = content_other]
        /\ out.key = PublicKeyOf(u.owner)

\* The unit stored under id, and the unit that was created under it (the
\* file create_context saved).
Stored(id) ==
    contexts[CHOOSE i \in DOMAIN contexts : contexts[i].key = id].value

Created(id) ==
    context_files[CHOOSE i \in DOMAIN context_files : context_files[i].key = id].value

\* ids lists units that were created as a chain: the first with no
\* previous, each later one with the id before it as previous.
CreatedLinked(ids) ==
    \A i \in DOMAIN ids :
        /\ ids[i] \in { context_files[j].key : j \in DOMAIN context_files }
        /\ Created(ids[i]).previous = IF i = 1 THEN << >> ELSE << ids[i - 1] >>

(***************************************************************************)
(* C17.  For units created by create_context with the first having no      *)
(* previous and every later one the id of the unit before it, create_chain *)
(* on the list of their ids followed by verify_chain returns true.         *)
(***************************************************************************)
C17_LinkedChainVerifies ==
    [][ \A c \in DOMAIN chains :
            ( /\ out'.op = "verify_chain"
              /\ out'.chain = c
              /\ CreatedLinked(chains[c].contexts)
              /\ \A i \in DOMAIN chains[c].contexts :
                    Stored(chains[c].contexts[i]) = Created(chains[c].contexts[i]) )
            => out'.ok ]_vars

\* A chain of two linked units was verified.
C17_Witness ==
    /\ out.op = "verify_chain"
    /\ out.ok
    /\ out.chain \in DOMAIN chains
    /\ Len(chains[out.chain].contexts) = 2
    /\ chains[out.chain].contexts[1] # chains[out.chain].contexts[2]

(***************************************************************************)
(* C18.  For a chain of units created linked (on which verify_chain        *)
(* returns true), after the previous field of a stored unit of the chain   *)
(* is changed to a different value, another unit's id or null, with the    *)
(* chain's id list unchanged, verify_chain returns false.                  *)
(***************************************************************************)
C18_AlteredPreviousBreaksChain ==
    [][ \A c \in DOMAIN chains :
            ( /\ out'.op = "verify_chain"
              /\ out'.chain = c
              /\ CreatedLinked(chains[c].contexts)
              /\ \E i \in DOMAIN chains[c].contexts :
                    Stored(chains[c].contexts[i]).previous
                        # Created(chains[c].contexts[i]).previous )
            => ~out'.ok ]_vars

\* The second unit of a two-unit chain had its previous set to null and the
\* chain no longer verifies.
C18_Witness ==
    /\ out.op = "verify_chain"
    /\ ~out.ok
    /\ out.chain \in DOMAIN chains
    /\ Len(chains[out.chain].contexts) = 2
    /\ CreatedLinked(chains[out.chain].contexts)
    /\ Stored(chains[out.chain].contexts[2]).previous = << >>
    /\ Stored(chains[out.chain].contexts[1]) = Created(chains[out.chain].contexts[1])

(***************************************************************************)
(* C20.  The unit store is append-only and stored units are immutable: no  *)
(* step of create_context, import_context, load_context or publish removes *)
(* an entry of the store or changes the type, content, owner, previous or  *)
(* timestamp of the unit stored under an id.                               *)
(***************************************************************************)
C20_StoreAppendOnly ==
    [][ \A i \in DOMAIN contexts :
            /\ i \in DOMAIN contexts'
            /\ contexts'[i].key = contexts[i].key
            /\ SameFive(contexts'[i].value, contexts[i].value) ]_vars

(***************************************************************************)
(* C21.  A create_context call that returns a unit whose id is already in  *)
(* the store and on disk (same type, content, owner, previous and          *)
(* timestamp as an earlier call, whatever the metadata) leaves the unit    *)
(* store and the storage directory as the earlier call left them.          *)
(***************************************************************************)
C21_RecreateIsIdempotent ==
    [][ ( /\ out'.op = "create_context"
          /\ out'.ok
          /\ out'.unit[1].id \in Keys(contexts)
          /\ out'.unit[1].id \in Keys(context_files) )
        => /\ contexts' = contexts
           /\ context_files' = context_files ]_vars

(***************************************************************************)
(* C22.  A create_context call in which writing the unit's file fails      *)
(* leaves the in-memory unit store as it was: the unit is not in it.       *)
(***************************************************************************)
C22_FailedWriteStoresNothing ==
    [][ (out'.op = "create_context" /\ out'.error = "OSError")
        => contexts' = contexts ]_vars

(***************************************************************************)
(* C23.  create_context on a node with no bound identity raises the        *)
(* identity-required RuntimeError, returns no unit and leaves the unit     *)
(* store and the storage directory unchanged.                              *)
(***************************************************************************)
C23_IdentityRequired ==
    [][ (did = None /\ out'.op = "create_context" /\ out' # out)
        => /\ out'.error = "RuntimeError"
           /\ ~out'.ok
           /\ out'.unit = << >>
           /\ contexts' = contexts
           /\ context_files' = context_files ]_vars

C23_Witness ==
    /\ did = None
    /\ out.op = "create_context"
    /\ out.error = "RuntimeError"

(***************************************************************************)
(* C30.  No unit that create_context placed in the store has a null        *)
(* signature, whether or not the cryptography package is available and     *)
(* whether the identity was generated or loaded.                           *)
(***************************************************************************)
C30_StoredUnitsAreSigned ==
    \A i \in DOMAIN contexts : contexts[i].value.signature # << >>

(***************************************************************************)
(* C24.  check_access on an unexpired token that is bound to no context    *)
(* and carries the required capability returns True whichever context id   *)
(* the caller names.                                                       *)
(***************************************************************************)
C24_UnboundTokenMatchesAnyContext ==
    ( /\ out.op = "check_access"
      /\ out.token[1].context_id = << >>
      /\ out.context_id # << >>
      /\ out.at <= out.token[1].expires.time
      /\ out.token[1].capability = out.capability )
    => (out.error = None /\ out.ok)

(***************************************************************************)
(* C25.  check_access on a token whose expiry is earlier than the time of  *)
(* the call returns False, whichever capability and context id are asked   *)
(* for, the token's own included.                                          *)
(***************************************************************************)
C25_ExpiredTokenFailsCheck ==
    (out.op = "check_access" /\ out.token[1].expires.time < out.at)
    => (out.error = None /\ ~out.ok)

(***************************************************************************)
(* C26.  check_access returns True only for a token whose capability is    *)
(* exactly the required one: an ADMIN token never passes a check for READ  *)
(* and a READ token never passes a check for WRITE.                        *)
(***************************************************************************)
C26_CapabilitiesNotHierarchical ==
    (out.op = "check_access" /\ out.ok) => out.token[1].capability = out.capability

\* an unexpired ADMIN token was checked for READ, naming no context, and
\* was refused
C26_Witness ==
    /\ out.op = "check_access"
    /\ out.error = None
    /\ ~out.ok
    /\ out.token[1].capability = ADMIN
    /\ out.capability = READ
    /\ out.at <= out.token[1].expires.time
    /\ out.context_id = << >>

(***************************************************************************)
(* C27.  A token issued by grant_access with a positive expires_in_hours,  *)
(* checked no later than its expiry with the capability and the context id *)
(* it was granted with, passes: check_access returns, and returns True.    *)
(***************************************************************************)
C27_IssuedTokenPasses ==
    ( /\ out.op = "check_access"
      /\ out.token[1] \in IssuedTokens
      /\ out.at <= out.token[1].expires.time
      /\ out.capability = out.token[1].capability
      /\ out.context_id = out.token[1].context_id )
    => (out.error = None /\ out.ok)

(***************************************************************************)
(* C28.  query_contexts returns the first min(limit, m) of the m stored    *)
(* units that pass every filter given (type equal, owner equal, timestamp  *)
(* strictly after `after`), in the insertion order of the store; it never  *)
(* returns more than limit units, limit = 0 included.                      *)
(***************************************************************************)
Passes(u, q) ==
    /\ q.context_type # << >> => u.type = q.context_type[1]
    /\ q.owner # << >> => u.owner = q.owner[1]
    /\ q.after # << >> => u.timestamp > q.after[1]

Matching(q) ==
    SelectSeq([i \in DOMAIN contexts |-> contexts[i].value], LAMBDA u : Passes(u, q))

C28_QueryReturnsFirstMatches ==
    [][ out'.op = "query_contexts"
        => LET q == out'.query[1]
               m == Len(Matching(q))
           IN  /\ out'.results = SubSeq(Matching(q), 1, Min({q.limit, m}))
               /\ Len(out'.results) <= q.limit ]_vars

(***************************************************************************)
(* C29.  verify_chain(chain_id) returns True exactly when the chain id is  *)
(* known and, along the chain's id list, every id is in the store, every   *)
(* unit's previous is the id before it in the list (null for the first),   *)
(* and every unit's id is the digest of its hashed fields; the empty list  *)
(* is valid.                                                               *)
(***************************************************************************)
ChainValid(chain_id) ==
    /\ chain_id \in DOMAIN chains
    /\ \A i \in DOMAIN chains[chain_id].contexts :
          LET id == chains[chain_id].contexts[i]
          IN  /\ id \in UnitIds
              /\ Stored(id).previous =
                    IF i = 1 THEN << >> ELSE << chains[chain_id].contexts[i - 1] >>
              /\ Stored(id).id = Digest(Stored(id))

C29_VerifyChainIffValid ==
    [][ (out'.op = "verify_chain" /\ contexts' = contexts /\ chains' = chains)
        => (out'.ok <=> ChainValid(out'.chain)) ]_vars

\* A chain whose units are all stored and linked in order, one of them with
\* an id that is no longer its digest, was verified and refused.
C29_Witness ==
    /\ out.op = "verify_chain"
    /\ ~out.ok
    /\ out.chain \in DOMAIN chains
    /\ chains[out.chain].contexts # << >>
    /\ \A i \in DOMAIN chains[out.chain].contexts :
          /\ chains[out.chain].contexts[i] \in UnitIds
          /\ Stored(chains[out.chain].contexts[i]).previous =
                IF i = 1 THEN << >> ELSE << chains[out.chain].contexts[i - 1] >>
    /\ \E i \in DOMAIN chains[out.chain].contexts :
          Stored(chains[out.chain].contexts[i]).id
            # Digest(Stored(chains[out.chain].contexts[i]))

(***************************************************************************)
(* C31.  check_access looks at no signature, grantor or grantee: a token   *)
(* that differs from the checked one only in signature (missing or forged  *)
(* included), granted_by or granted_to gets the same outcome for the same  *)
(* required capability and context id at the same time.                    *)
(***************************************************************************)
TokenVariants(token) ==
    { [token EXCEPT !.signature = s, !.granted_by = g, !.granted_to = h] :
        s \in {<< >>, << [signer |-> "k2", data |-> token_data(token)] >>,
                      << [signer |-> "k1", data |-> token_data(token)] >>},
        g \in {DidOf("k1"), DidOf("k2")},
        h \in Requesters }

C31_CheckIgnoresSignature ==
    (out.op = "check_access" /\ out.at = now)
    => \A other \in TokenVariants(out.token[1]) :
          /\ (is_expired_errors(other) # {}) = (out.error # None)
          /\ out.error = None
                => check_access_result(other, out.capability, out.context_id) = out.ok

\* a token carrying no signature was checked and passed
C31_Witness ==
    /\ out.op = "check_access"
    /\ out.error = None
    /\ out.ok
    /\ out.token[1].signature = << >>

(***************************************************************************)
(* C32.  A context has at most one requirement: a step that registers a    *)
(* requirement for a context leaves exactly one entry for it, holding the  *)
(* requirement just registered, and keeps the entries of the other         *)
(* contexts; nothing but a registration changes the map; and a call for    *)
(* the context decides (lapsed or not, amount against the balances, amount *)
(* deducted) on that entry.                                                *)
(***************************************************************************)
Registered(a, currency, recipient_address, h) ==
    [amount |-> a, currency |-> currency, recipient_address |-> recipient_address,
     expires |-> IF h # 0 THEN << now + h >> ELSE NoExpiry]

C32_LatestRequirementDecides ==
    [][ /\ \A c \in Priced, a \in {1, 2}, h \in Hours :
                create_payment_requirement(c, a, BITCOIN, "addr1", h)
                => /\ Cardinality({ i \in DOMAIN payment_requirements' :
                                        payment_requirements'[i].key = c }) = 1
                   /\ \A i \in DOMAIN payment_requirements' :
                        IF payment_requirements'[i].key = c
                        THEN payment_requirements'[i].value
                                = Registered(a, BITCOIN, "addr1", h)
                        ELSE i \in DOMAIN payment_requirements
                             /\ payment_requirements'[i] = payment_requirements[i]
        /\ payment_requirements' # payment_requirements
                => \E c \in Priced, a \in {1, 2}, h \in Hours :
                        create_payment_requirement(c, a, BITCOIN, "addr1", h)
        /\ \A c \in Contexts, r \in Requesters :
                (IsCheck(c, r) /\ HasRequirement(c))
                => /\ (last'.via = "expired") <=> ~Unexpired(c)
                   /\ last'.via = "402"
                        => /\ last'.payment_requirement = RequirementOf(c)
                           /\ Funded(r, RequirementOf(c).amount) = {}
                   /\ last'.via = "channel"
                        => /\ last'.payment_requirement = RequirementOf(c)
                           /\ payment_channels'[last'.channel].current_balance
                                = payment_channels[last'.channel].current_balance
                                    - RequirementOf(c).amount ]_vars

\* One context is priced; a call was paid 2 through a channel that has paid
\* 3 in all: an earlier call for the context was paid at the price 1, which
\* the registration of the price 2 replaced.
C32_Witness ==
    /\ last.op = "check_payment_for_context"
    /\ last.via = "channel"
    /\ last.payment_requirement.amount = 2
    /\ paid[last.channel] = 3
    /\ Len(payment_requirements) = 1

(***************************************************************************)
(* C33.  verify_payment hands the verifier the recipient address of the    *)
(* requirement registered for the receipt's own context, also when another *)
(* context has a requirement in the same currency with another address.    *)
(***************************************************************************)
C33_VerifiesAgainstOwnContext ==
    [][ \A r \in DOMAIN payment_receipts :
            ( /\ last'.op = "verify_payment"
              /\ last'.receipt = r
              /\ last'.via = "verifier"
              /\ HasRequirement(payment_receipts[r].context_id) )
            => last'.payment_requirement.recipient_address
                = RequirementOf(payment_receipts[r].context_id).recipient_address ]_vars

(***************************************************************************)
(* C34.  A call for context c is granted through a receipt only if a       *)
(* CONFIRMED receipt of the requester tagged with c has the amount and the *)
(* currency of the requirement registered for c.                           *)
(***************************************************************************)
C34_ReceiptPaysWhatIsRequired ==
    [][ \A c \in Contexts, r \in Requesters :
            (IsCheck(c, r) /\ last'.granted /\ last'.via = "receipt")
            => \E i \in DOMAIN payment_receipts :
                    /\ payment_receipts[i].context_id = c
                    /\ payment_receipts[i].payer_did = r
                    /\ payment_receipts[i].status = CONFIRMED
                    /\ payment_receipts[i].amount = RequirementOf(c).amount
                    /\ payment_receipts[i].currency = RequirementOf(c).currency ]_vars

(***************************************************************************)
(* C35.  A call is paid through a channel only if the channel's currency   *)
(* is the currency of the context's requirement: no channel funded in one  *)
(* currency loses balance for a requirement priced in another.             *)
(***************************************************************************)
C35_ChannelCurrencyMatches ==
    [][ \A c \in Contexts, r \in Requesters, ch \in DOMAIN payment_channels :
            ( /\ IsCheck(c, r)
              /\ payment_channels'[ch].current_balance
                    # payment_channels[ch].current_balance )
            => payment_channels[ch].currency = RequirementOf(c).currency ]_vars

(***************************************************************************)
(* C36.  For every channel, in every reachable state, the capacity minus   *)
(* the balance is the sum of the requirement amounts of the calls that     *)
(* returned Granted through the channel, also when calls overlap.          *)
(***************************************************************************)
C36_FundsConserved ==
    \A ch \in DOMAIN payment_channels :
        payment_channels[ch].total_capacity - payment_channels[ch].current_balance
            = paid[ch]

(***************************************************************************)
(* C37.  A call check_payment_for_context(c, r) leaves the requirement map *)
(* and every receipt as they were, creates and removes no channel, changes *)
(* no channel's payer, recipient, capacity, currency, expiry or status,    *)
(* and changes the balance of at most one channel, which is open, paid by  *)
(* r and payable to the node owner.                                        *)
(***************************************************************************)
BalanceChanged(ch) ==
    payment_channels'[ch].current_balance # payment_channels[ch].current_balance

C37_AuthorizeFrame ==
    [][ \A c \in Contexts, r \in Requesters :
            IsCheck(c, r)
            => /\ UNCHANGED << payment_requirements, payment_receipts >>
               /\ DOMAIN payment_channels' = DOMAIN payment_channels
               /\ \A ch \in DOMAIN payment_channels :
                    /\ [payment_channels'[ch] EXCEPT !.current_balance = 0]
                            = [payment_channels[ch] EXCEPT !.current_balance = 0]
                    /\ BalanceChanged(ch)
                        => /\ payment_channels[ch].status = "open"
                           /\ payment_channels[ch].payer_did = r
                           /\ payment_channels[ch].recipient_did = node_did
               /\ Cardinality({ ch \in DOMAIN payment_channels : BalanceChanged(ch) })
                    <= 1 ]_vars

\* A call was paid through the requester's channel while a channel of
\* another payer holds funds.
C37_Witness ==
    /\ last.op = "check_payment_for_context"
    /\ last.via = "channel"
    /\ \E ch \in DOMAIN payment_channels :
        /\ payment_channels[ch].payer_did # last.requester_did
        /\ payment_channels[ch].status = "open"
        /\ payment_channels[ch].current_balance > 0

(***************************************************************************)
(* C38.  A call paid through a channel records no receipt, and the same    *)
(* call made again right after it is not granted as already paid: it is    *)
(* paid through a channel once more, the required amount being deducted    *)
(* again, or, when no channel of the requester holds the amount, answered  *)
(* with PaymentRequired.                                                   *)
(***************************************************************************)
C38_ChannelAccessNotRemembered ==
    [][ \A c \in Contexts, r \in Requesters :
            /\ (IsCheck(c, r) /\ last'.via = "channel")
                => payment_receipts' = payment_receipts
            /\ ( /\ last.op = "check_payment_for_context"
                 /\ last.via = "channel"
                 /\ last.context_id = c
                 /\ last.requester_did = r
                 /\ IsCheck(c, r) )
               => IF Funded(r, RequirementOf(c).amount) = {}
                  THEN /\ last'.status_code = 402
                       /\ ~last'.granted
                       /\ UNCHANGED payment_channels
                  ELSE /\ last'.granted
                       /\ last'.via = "channel"
                       /\ payment_channels'[last'.channel].current_balance
                            = payment_channels[last'.channel].current_balance
                                - RequirementOf(c).amount ]_vars

\* The requester paid for the context through two channels in turn, no
\* receipt exists, and the next call for it was answered PaymentRequired.
C38_Witness ==
    /\ last.op = "check_payment_for_context"
    /\ last.status_code = 402
    /\ payment_receipts = << >>
    /\ Len(payment_channels) = 2
    /\ \A ch \in DOMAIN payment_channels :
        /\ payment_channels[ch].payer_did = last.requester_did
        /\ payment_channels[ch].status = "open"
        /\ paid[ch] = last.payment_requirement.amount
        /\ payment_channels[ch].current_balance = 0

(***************************************************************************)
(* C39.  Metadata and storage_refs are covered neither by the id nor by    *)
(* the signature: when a stored unit changes in metadata or storage_refs   *)
(* only, its content hash and the result of verify_context under every key *)
(* stay what they were, and so does the result of verify_chain for every   *)
(* chain.                                                                  *)
(***************************************************************************)
SameButUncovered(u, v) ==
    [u EXCEPT !.metadata = << >>, !.storage_refs = << >>]
        = [v EXCEPT !.metadata = << >>, !.storage_refs = << >>]

C39_MetadataUncovered ==
    [][ ( /\ chains' = chains
          /\ DOMAIN contexts' = DOMAIN contexts
          /\ \A i \in DOMAIN contexts :
                /\ contexts'[i].key = contexts[i].key
                /\ SameButUncovered(contexts[i].value, contexts'[i].value) )
        => /\ \A i \in DOMAIN contexts :
                /\ content_hash(contexts'[i].value) = content_hash(contexts[i].value)
                /\ \A key \in KeyPairs :
                        verify_context_result(contexts'[i].value, key)
                            = verify_context_result(contexts[i].value, key)
           /\ \A chain_id \in DOMAIN chains :
                verify_chain_result(chain_id)' = verify_chain_result(chain_id) ]_vars

\* A chain verifies although one of its units was published, or created
\* again with other metadata, after the chain's units were signed.
C39_Witness ==
    /\ out.op = "verify_chain"
    /\ out.ok
    /\ out.chain \in DOMAIN chains
    /\ \E i \in DOMAIN chains[out.chain].contexts :
          LET id == chains[out.chain].contexts[i]
          IN  /\ id \in UnitIds
              /\ Stored(id).storage_refs # << >>
              /\ Stored(id).metadata # << >>
              /\ Stored(id).signature # << >>
              /\ verify_context_result(Stored(id), "k1")

====
